---- MODULE Spec2Model ----
(***************************************************************************)
(* A model of package/request.py: RequestClient.request and the endpoint   *)
(* decorator.                                                              *)
(*                                                                         *)
(* Python strings are sequences of one-character strings, so that joining, *)
(* prefixes and substitution are computed character by character.  A       *)
(* replacement field "{}" of a path template is the single token "{}".     *)
(* A dict is a function whose domain is its set of keys.                   *)
(***************************************************************************)
EXTENDS Integers, Sequences, FiniteSets, TLC

VARIABLES desc, constructed, wrappers, calls, last

vars == <<desc, constructed, wrappers, calls, last>>

(* ---------------------------- bounds ----------------------------------- *)

\* longest tuple of positional call arguments
MaxArgs == 2

\* longest path given to RequestClient.request directly
MaxPath == 2

\* calls of decorated methods in one run
MaxCalls == 2

(* ---------------------------- helpers ---------------------------------- *)

None == "None"

EmptyDict == [k \in {} |-> None]

Min(a, b) == IF a < b THEN a ELSE b

SeqsUpTo(S, n) == UNION {[1..m -> S] : m \in 0..n}

IsPrefix(p, s) == Len(p) <= Len(s) /\ SubSeq(s, 1, Len(p)) = p

IsSuffix(p, s) == Len(p) <= Len(s) /\ SubSeq(s, Len(s) - Len(p) + 1, Len(s)) = p

startswith(s, c) == Len(s) > 0 /\ s[1] = c

endswith(s, c) == Len(s) > 0 /\ s[Len(s)] = c

(* ------------------------ converters (user code) ----------------------- *)

\* values passed as call arguments
Values == {5, 12}

DecDigits == <<"0", "1", "2", "3", "4", "5", "6", "7", "8", "9">>

HexDigits == DecDigits \o <<"a", "b", "c", "d", "e", "f">>

RECURSIVE Digits(_, _, _)
Digits(n, base, digits) ==
    IF n < base THEN <<digits[n + 1]>>
    ELSE Digits(n \div base, base, digits) \o <<digits[(n % base) + 1]>>

\* the converters a descriptor may be built with: value -> string
Converters == {"str", "hexstr"}

Apply(f, v) ==
    IF f = "str" THEN Digits(v, 10, DecDigits) ELSE Digits(v, 16, HexDigits)

(* ------------------------------ dicts ----------------------------------- *)

\* a faulty dict_get: `d.get(k) or default`, a falsy value counts as missing
dict_get_falsy(d, k, default) ==
    IF k \in DOMAIN d /\ d[k] # 0 THEN d[k] ELSE default

\* d.get(k, default)
dict_get(d, k, default) == IF k \in DOMAIN d THEN d[k] ELSE default

\* d.update(k=v), also f(k=v, **d)
dict_update(d, k, v) == [x \in DOMAIN d \cup {k} |-> IF x = k THEN v ELSE d[x]]

\* d without the key k
dict_without(d, k) == [x \in DOMAIN d \ {k} |-> d[x]]

(* -------------------------- RequestClient ------------------------------- *)

\* scheme and host of the servers of the model: 'h://x'
ServerOrigin == <<"h", ":", "/", "/", "x">>

Clients == {"c1", "c2"}

\* the class attribute `server` of each client: 'h://x/b/' and 'h://x/b'
server(self) ==
    IF self = "c1" THEN ServerOrigin \o <<"/", "b", "/">>
    ELSE ServerOrigin \o <<"/", "b">>

\* a faulty urljoin: plain concatenation, `self.server + path`
urljoin_concat(a, b) == a \o b

\* os.path.join(a, b) of POSIX: a component that begins with the separator
\* replaces everything before it; otherwise one separator is put between the
\* two unless a is empty or already ends with one.
urljoin(a, b) ==
    IF startswith(b, "/") THEN b
    ELSE IF a = <<>> \/ endswith(a, "/") THEN a \o b
    ELSE a \o <<"/">> \o b

DefaultTimeout == 30

\* a faulty raise_for_status: server errors (500..599) are let through
raise_for_status_4xx(response) ==
    response.status >= 400 /\ response.status < 500

\* Response.raise_for_status() of the requests library raises HTTPError for
\* a status in 400..599 and returns for every other status.
raise_for_status(response) ==
    response.status >= 400 /\ response.status < 600

Return(v) == [kind |-> "return", value |-> v]

Raise(e) == [kind |-> "raise", exc |-> e]

\* RequestClient.request(self, method, path, **kwargs).  net is what
\* Session.request does with the call: it returns a response or raises.
request(self, method, path, kwargs, net) ==
    LET url == urljoin(server(self), path)
        kw  == dict_update(kwargs, "timeout",
                           dict_get(kwargs, "timeout", DefaultTimeout))
        out == IF net.kind = "raise" THEN Raise(net.exc)
               ELSE IF raise_for_status(net.value) THEN Raise("HTTPError")
               ELSE Return(net.value)
    IN  [self |-> self, method |-> method, path |-> path, kwargs |-> kwargs,
         session |-> [method |-> method, url |-> url, kwargs |-> kw],
         net |-> net, outcome |-> out]

(* ------------------------------ endpoint -------------------------------- *)

\* endpoint.__init__
endpoint(method, path_template, args, kwargs) ==
    [method |-> method, path_template |-> path_template,
     map_args |-> args, map_kwargs |-> kwargs, func |-> None]

delete(path_template, args, kwargs) == endpoint("DELETE", path_template, args, kwargs)

get(path_template, args, kwargs) == endpoint("GET", path_template, args, kwargs)

post(path_template, args, kwargs) == endpoint("POST", path_template, args, kwargs)

update(path_template, args, kwargs) == endpoint("UPDATE", path_template, args, kwargs)

\* str.format(*args) with automatically numbered fields: the i-th "{}" takes
\* args[i]; a field with no argument left raises IndexError (ok = FALSE).
\* Arguments beyond the last field are ignored.
RECURSIVE format_from(_, _, _)
format_from(template, args, i) ==
    IF template = <<>> THEN [ok |-> TRUE, str |-> <<>>]
    ELSE IF Head(template) = "{}"
         THEN IF i > Len(args) THEN [ok |-> FALSE, str |-> <<>>]
              ELSE LET r == format_from(Tail(template), args, i + 1)
                   IN  [ok |-> r.ok, str |-> args[i] \o r.str]
         ELSE LET r == format_from(Tail(template), args, i)
              IN  [ok |-> r.ok, str |-> <<Head(template)>> \o r.str]

format(template, args) == format_from(template, args, 1)

\* a faulty zip_apply: the converters meet the arguments in reverse order
zip_apply_reversed(map_args, args) ==
    [i \in 1..Min(Len(map_args), Len(args)) |->
        Apply(map_args[i], args[Len(args) + 1 - i])]

\* (f(v) for f, v in zip(map_args, args)): zip stops at the shorter one
zip_apply(map_args, args) ==
    [i \in 1..Min(Len(map_args), Len(args)) |-> Apply(map_args[i], args[i])]

\* the loop `for k, v in kwargs.items()` over the dict it is given
parse_loop(map_kwargs, items) ==
    [params |-> [k \in DOMAIN items \cap DOMAIN map_kwargs |->
                    Apply(map_kwargs[k], items[k])],
     kwargs |-> [k \in DOMAIN items \ DOMAIN map_kwargs |-> items[k]]]

\* endpoint._parse_args.  The statement `kwargs = dict()` rebinds the name
\* of the keyword arguments to a new empty dict before the loop, so the
\* loop runs over that empty dict and the call's keyword arguments are not
\* read.
_parse_args(self, args, kwargs) ==
    LET f       == format(self.path_template, zip_apply(self.map_args, args))
        rebound == EmptyDict
        looped  == parse_loop(self.map_kwargs, rebound)
    IN  IF ~f.ok THEN [ok |-> FALSE, exc |-> "IndexError"]
        ELSE [ok |-> TRUE, path |-> f.str,
              params |-> looped.params, kwargs |-> looped.kwargs]

\* the wrapped methods (user code): each builds its answer from the response
Funcs == {"A", "B"}

call_func(func, client, response) ==
    [by |-> func, self |-> client, status |-> response.status]

\* a faulty execute: a failed request is tried once more before giving up
execute_retry(self, client, args, kwargs, net) ==
    LET p == _parse_args(self, args, kwargs)
    IN  IF ~p.ok
        THEN [self |-> self, order |-> <<"parse">>, requests |-> <<>>,
              invoked |-> <<>>, outcome |-> Raise(p.exc)]
        ELSE
        LET r == request(client, self.method, p.path,
                         dict_update(p.kwargs, "params", p.params), net)
        IN  IF r.outcome.kind = "raise"
            THEN [self |-> self, order |-> <<"parse", "request", "request">>,
                  requests |-> <<r, r>>, invoked |-> <<>>,
                  outcome |-> r.outcome]
            ELSE
            LET ret == call_func(self.func, client, r.outcome.value)
            IN  [self |-> self, order |-> <<"parse", "request", "func">>,
                 requests |-> <<r>>,
                 invoked |-> <<[func |-> self.func,
                                args |-> <<client, r.outcome.value>>,
                                ret |-> ret]>>,
                 outcome |-> Return(ret)]

\* a faulty execute: the converters are taken from the descriptor as from
\* an iterator, so those a call has used are gone for the next call
execute_consuming(self, client, args, kwargs, net) ==
    LET p    == _parse_args(self, args, kwargs)
        used == Min(Len(self.map_args), Len(args))
        left == [self EXCEPT !.map_args =
                    SubSeq(self.map_args, used + 1, Len(self.map_args))]
    IN  IF ~p.ok
        THEN [self |-> left, order |-> <<"parse">>, requests |-> <<>>,
              invoked |-> <<>>, outcome |-> Raise(p.exc)]
        ELSE
        LET r == request(client, self.method, p.path,
                         dict_update(p.kwargs, "params", p.params), net)
        IN  IF r.outcome.kind = "raise"
            THEN [self |-> left, order |-> <<"parse", "request">>,
                  requests |-> <<r>>, invoked |-> <<>>, outcome |-> r.outcome]
            ELSE
            LET ret == call_func(self.func, client, r.outcome.value)
            IN  [self |-> left, order |-> <<"parse", "request", "func">>,
                 requests |-> <<r>>,
                 invoked |-> <<[func |-> self.func,
                                args |-> <<client, r.outcome.value>>,
                                ret |-> ret]>>,
                 outcome |-> Return(ret)]

\* endpoint.execute(self, client, *args, **kwargs).  The result holds the
\* descriptor after the call, the steps in the order they ran, the calls of
\* client.request and of the wrapped method, and what the caller gets.
execute(self, client, args, kwargs, net) ==
    LET p == _parse_args(self, args, kwargs)
    IN  IF ~p.ok
        THEN [self |-> self, order |-> <<"parse">>, requests |-> <<>>,
              invoked |-> <<>>, outcome |-> Raise(p.exc)]
        ELSE
        LET r == request(client, self.method, p.path,
                         dict_update(p.kwargs, "params", p.params), net)
        IN  IF r.outcome.kind = "raise"
            THEN [self |-> self, order |-> <<"parse", "request">>,
                  requests |-> <<r>>, invoked |-> <<>>, outcome |-> r.outcome]
            ELSE
            LET ret == call_func(self.func, client, r.outcome.value)
            IN  [self |-> self, order |-> <<"parse", "request", "func">>,
                 requests |-> <<r>>,
                 invoked |-> <<[func |-> self.func,
                                args |-> <<client, r.outcome.value>>,
                                ret |-> ret]>>,
                 outcome |-> Return(ret)]

\* endpoint.__call__(self, func): the descriptor after wrapping func
wrap(self, func) == [self EXCEPT !.func = func]

(* --------------------------- input domains ------------------------------ *)

Statuses == {200, 299, 304, 399, 400, 404, 599}

Responses == [status : Statuses, body : {"body"}]

\* what the underlying Session.request can do
NetOutcomes == {Return(r) : r \in Responses} \cup {Raise("ConnectionError")}

Templates ==
    { <<"s">>,
      <<"s", "?", "{}">>,
      <<"i", "/", "{}", "?", "{}">> }

NamedConverters == { [q |-> "str"] }

Descriptors ==
    UNION { { delete(t, a, k), get(t, a, k), post(t, a, k), update(t, a, k) } :
            <<t, a, k>> \in Templates \X SeqsUpTo(Converters, MaxArgs)
                             \X NamedConverters }

\* what Session.request does during a call of a decorated method
CallNetOutcomes ==
    {Return(r) : r \in {x \in Responses : x.status \in {200, 404}}}
        \cup {Raise("ConnectionError")}

\* keyword arguments of a call of a decorated method
CallKwargs ==
    { [k \in K |-> IF k = "q" THEN 12 ELSE IF k = "timeout" THEN 5 ELSE "H"] :
      K \in (SUBSET {"q", "headers"}) \cup {{"timeout"}} }

(* ----------------------------- the endpoint ----------------------------- *)

NoCall == [op |-> "none"]

Init ==
    /\ desc \in Descriptors
    /\ constructed = desc
    /\ wrappers = {}
    /\ calls = 0
    /\ last = NoCall

\* @desc applied to the method func: returns a new callable
Wrap(func) ==
    /\ last = NoCall
    /\ desc' = wrap(desc, func)
    /\ wrappers' = wrappers \cup {func}
    /\ UNCHANGED <<constructed, calls, last>>

\* a call of the callable that wrapping func returned, up to the point where
\* it returns or raises
Invoke(func, client, args, kwargs, net) ==
    /\ last = NoCall
    /\ calls < MaxCalls
    /\ func \in wrappers
    /\ LET r == execute(desc, client, args, kwargs, net)
       IN  /\ desc' = r.self
           /\ last' = [op |-> "call", via |-> func, client |-> client,
                       args |-> args, kwargs |-> kwargs, before |-> desc,
                       after |-> r.self, order |-> r.order,
                       requests |-> r.requests, invoked |-> r.invoked,
                       outcome |-> r.outcome]
    /\ calls' = calls + 1
    /\ UNCHANGED <<constructed, wrappers>>

\* control is back with the caller
Done ==
    /\ last # NoCall
    /\ last' = NoCall
    /\ UNCHANGED <<desc, constructed, wrappers, calls>>

Next ==
    \/ \E func \in Funcs : Wrap(func)
    \/ \E func \in Funcs, client \in Clients, args \in SeqsUpTo(Values, MaxArgs),
          kwargs \in CallKwargs, net \in CallNetOutcomes :
          Invoke(func, client, args, kwargs, net)
    \/ Done

Spec == Init /\ [][Next]_vars

(* ------------------------- the client on its own ------------------------ *)

Methods == {"GET", "POST"}

Paths == SeqsUpTo({"/", "s", "?"}, MaxPath)

\* options of a direct call of request
ReqKwargs ==
    { [k \in K |-> IF k = "timeout" THEN t ELSE "H"] :
      <<K, t>> \in (SUBSET {"timeout", "headers"}) \X {0, 5, 30} }

\* the descriptor of the class docstring: endpoint('GET', path?q={}, query2str)
InitClient ==
    /\ desc = endpoint("GET", <<"s", "?", "{}">>, <<"str">>, EmptyDict)
    /\ constructed = desc
    /\ wrappers = {}
    /\ calls = 0
    /\ last = NoCall

\* client.request(method, path, **kwargs) called directly
Request(self, method, path, kwargs, net) ==
    /\ last = NoCall
    /\ last' = [op |-> "request", r |-> request(self, method, path, kwargs, net)]
    /\ UNCHANGED <<desc, constructed, wrappers, calls>>

NextClient ==
    \/ \E self \in Clients, method \in Methods, path \in Paths,
          kwargs \in ReqKwargs, net \in NetOutcomes :
          Request(self, method, path, kwargs, net)
    \/ Done

SpecClient == InitClient /\ [][NextClient]_vars

(* ------------------------------ properties ------------------------------ *)

IsCall == last.op = "call"

IsRequest == last.op = "request"

\* the number of replacement fields of a template
Slots(template) == Cardinality({i \in DOMAIN template : template[i] = "{}"})

\* the template with its i-th field replaced by strs[i], built from the right
RECURSIVE Fill(_, _)
Fill(template, strs) ==
    IF template = <<>> THEN <<>>
    ELSE LET n == Len(template)
             front == SubSeq(template, 1, n - 1)
         IN  IF template[n] = "{}"
             THEN Fill(front, strs) \o strs[Slots(template)]
             ELSE Fill(front, strs) \o <<template[n]>>

\* C1: every keyword argument of a call that has a named converter is sent
\* converted in params and is no passthrough option; every other keyword
\* argument is passed through unmodified and is not in params; none is lost.
C1_KeywordsPartitioned ==
    (IsCall /\ Len(last.requests) = 1) =>
        LET sent   == last.requests[1].kwargs
            params == sent.params
            pass   == dict_without(sent, "params")
            conv   == last.before.map_kwargs
        IN  \A k \in DOMAIN last.kwargs :
                IF k \in DOMAIN conv
                THEN /\ k \in DOMAIN params
                     /\ params[k] = Apply(conv[k], last.kwargs[k])
                     /\ k \notin DOMAIN pass
                ELSE /\ k \in DOMAIN pass
                     /\ pass[k] = last.kwargs[k]
                     /\ k \notin DOMAIN params

\* C2: for a path that does not begin with "/", the URL given to the session
\* is the server URL, whole, then exactly one "/", then the path.
C2_RelativePathJoined ==
    (IsRequest /\ ~startswith(last.r.path, "/")) =>
        LET base == server(last.r.self)
            stem == IF endswith(base, "/") THEN SubSeq(base, 1, Len(base) - 1)
                    ELSE base
            url  == last.r.session.url
        IN  /\ url = stem \o <<"/">> \o last.r.path
            /\ IsPrefix(base, url)
            /\ IsSuffix(last.r.path, url)

C2_Witness ==
    /\ IsRequest
    /\ last.r.self = "c2"
    /\ last.r.path = <<"s", "?">>
    /\ last.r.session.url = <<"h", ":", "/", "/", "x", "/", "b", "/", "s", "?">>

\* C3: the session gets timeout 30 when the caller gave no timeout and the
\* caller's timeout, whatever it is, when one was given; every other option
\* is passed on as given.
C3_TimeoutDefault ==
    IsRequest =>
        LET given == last.r.kwargs
            sent  == last.r.session.kwargs
        IN  /\ "timeout" \in DOMAIN sent
            /\ "timeout" \notin DOMAIN given => sent.timeout = 30
            /\ "timeout" \in DOMAIN given => sent.timeout = given.timeout
            /\ dict_without(sent, "timeout") = dict_without(given, "timeout")

C3_Witness ==
    /\ IsRequest
    /\ last.r.kwargs = [timeout |-> 0, headers |-> "H"]
    /\ last.r.session.kwargs = [timeout |-> 0, headers |-> "H"]

C5_PositionalSlots ==
    (IsCall /\ Slots(last.before.path_template) = Len(last.before.map_args)) =>
        LET d == last.before
            N == Len(d.map_args)
        IN  /\ Len(last.args) = N =>
                /\ Len(last.requests) = 1
                /\ last.requests[1].path =
                      Fill(d.path_template,
                           [i \in 1..N |-> Apply(d.map_args[i], last.args[i])])
            /\ Len(last.args) < N =>
                /\ last.outcome = Raise("IndexError")
                /\ last.requests = <<>>

C5_Witness ==
    /\ IsCall
    /\ last.before.path_template = <<"i", "/", "{}", "?", "{}">>
    /\ last.before.map_args = <<"str", "hexstr">>
    /\ last.args = <<5, 12>>
    /\ Len(last.requests) = 1
    /\ last.requests[1].path = <<"i", "/", "5", "?", "c">>

\* C6: a call that returns has invoked the method its callable was made
\* from, with the client and the response of client.request as the only
\* arguments, and returns what that method returned.
C6_WrappedGetsResponse ==
    (IsCall /\ last.outcome.kind = "return") =>
        /\ Len(last.invoked) = 1
        /\ Len(last.requests) = 1
        /\ last.invoked[1].func = last.via
        /\ last.invoked[1].args = <<last.client, last.requests[1].outcome.value>>
        /\ last.outcome.value = last.invoked[1].ret

\* C7: a call makes at most one client.request, with the descriptor's verb,
\* and exactly one when it returns; the steps run in the order parse,
\* request, wrapped method; a failed parse requests nothing; a failed request
\* invokes nothing and its error is the call's error.
C7_OneRequestInOrder ==
    IsCall =>
        /\ Len(last.requests) <= 1
        /\ Len(last.invoked) <= 1
        /\ \A i \in DOMAIN last.requests :
               last.requests[i].method = last.before.method
        /\ IsPrefix(last.order, <<"parse", "request", "func">>)
        /\ Cardinality({i \in DOMAIN last.order : last.order[i] = "request"})
               = Len(last.requests)
        /\ Cardinality({i \in DOMAIN last.order : last.order[i] = "func"})
               = Len(last.invoked)
        /\ last.outcome.kind = "return" =>
               /\ Len(last.requests) = 1
               /\ last.order = <<"parse", "request", "func">>
        /\ last.outcome = Raise("IndexError") => last.requests = <<>>
        /\ \A i \in DOMAIN last.requests :
               last.requests[i].outcome.kind = "raise" =>
                   /\ last.invoked = <<>>
                   /\ last.outcome = last.requests[i].outcome

C7_Witness ==
    /\ IsCall
    /\ last.order = <<"parse", "request">>
    /\ last.invoked = <<>>
    /\ last.outcome = Raise("HTTPError")

\* C8: a call, returning or raising, leaves the descriptor as it was, so the
\* path, params and passthrough options of every request are those the
\* descriptor as constructed gives for the arguments of that call.
C8_DescriptorUnchanged ==
    /\ desc = [constructed EXCEPT !.func = desc.func]
    /\ IsCall =>
        /\ last.after = last.before
        /\ LET p == _parse_args(constructed, last.args, last.kwargs)
           IN  IF p.ok
               THEN /\ Len(last.requests) = 1
                    /\ last.requests[1].path = p.path
                    /\ last.requests[1].kwargs =
                          dict_update(p.kwargs, "params", p.params)
               ELSE last.requests = <<>>

C8_Witness ==
    /\ IsCall
    /\ calls = 2
    /\ last.outcome.kind = "raise"
    /\ Len(last.requests) = 1
    /\ desc = last.before

\* C9: for a path that begins with "/", the URL given to the session still
\* begins with the scheme and host of the server and is not the bare path.
C9_LeadingSlashKeepsServer ==
    (IsRequest /\ startswith(last.r.path, "/")) =>
        /\ last.r.session.url # last.r.path
        /\ IsPrefix(ServerOrigin, last.r.session.url)

\* C10: the callable made by wrapping a method passes the response to that
\* method, also after the descriptor has wrapped another method.
C10_CallableKeepsItsMethod ==
    (IsCall /\ Len(last.invoked) = 1) => last.invoked[1].func = last.via

====
